---- MODULE Spec2Model ----
(***************************************************************************)
(* Model of the MeetVoice article API (src/meetvoice-api/src/main.rs):     *)
(* the two read handlers list_articles and get_article, the document       *)
(* store they query, and the external writer that changes the collection.  *)
(*                                                                         *)
(* Option<T> is modelled as a set with at most one element: None = {},     *)
(* Some(v) = {v}.  A string that is searched (theme, regular expression)   *)
(* is a sequence of one-character strings.                                 *)
(***************************************************************************)
EXTENDS Integers, Sequences, FiniteSets, TLC

(***************************************************************************)
(* Bounds.                                                                 *)
(***************************************************************************)
\* Width of the machine words.  The program uses 64-bit u64/i64; the model
\* keeps the same wrap-around arithmetic on a narrower word.
WordBits == 8
\* Number of documents the external writer can choose from.
MaxDocs == 3
\* Number of writes of the external writer in one behaviour.
MaxWrites == 1

(***************************************************************************)
(* Program constants.                                                      *)
(***************************************************************************)
DefaultPage == 1
DefaultLimit == 10
MaxLimit == 50

RECURSIVE Pow2(_)
Pow2(n) == IF n = 0 THEN 1 ELSE 2 * Pow2(n - 1)

\* u64 and i64 (ListQuery.page, ListQuery.limit)
U64Max == Pow2(WordBits) - 1
I64Max == Pow2(WordBits - 1) - 1
I64Min == 0 - Pow2(WordBits - 1)
U64 == 0..U64Max
I64 == I64Min..I64Max

Max(a, b) == IF a >= b THEN a ELSE b
Min(a, b) == IF a <= b THEN a ELSE b
Abs(a) == IF a < 0 THEN 0 - a ELSE a

None == {}
Some(v) == {v}
UnwrapOr(o, d) == IF o = {} THEN d ELSE CHOOSE v \in o : TRUE

(***************************************************************************)
(* Characters and case folding ("$options": "i").                          *)
(***************************************************************************)
Lower(c) ==
    CASE c = "R" -> "r"
      [] c = "O" -> "o"
      [] c = "P" -> "p"
      [] OTHER -> c

RECURSIVE Drop(_, _)
Drop(s, n) == IF n = 0 \/ s = <<>> THEN s ELSE Drop(Tail(s), n - 1)

(***************************************************************************)
(* The regular expression the store evaluates for {"$regex": theme,        *)
(* "$options": "i"}: unanchored search, '.' any character, 'c*' zero or    *)
(* more, '^' and '$' anchors, everything else a literal compared without   *)
(* case.  A pattern with an unbalanced parenthesis or a quantifier with    *)
(* nothing to repeat does not compile and the store rejects the query.     *)
(***************************************************************************)
RECURSIVE ParenDepth(_, _)
ParenDepth(re, depth) ==
    IF re = <<>> THEN depth
    ELSE IF Head(re) = "(" THEN ParenDepth(Tail(re), depth + 1)
    ELSE IF Head(re) = ")" THEN
        IF depth = 0 THEN 0 - 1 ELSE ParenDepth(Tail(re), depth - 1)
    ELSE ParenDepth(Tail(re), depth)

RegexValid(re) ==
    /\ ParenDepth(re, 0) = 0
    /\ \A i \in 1..Len(re) :
          re[i] = "*" => /\ i > 1
                         /\ re[i - 1] \notin {"*", "^", "("}

CharMatches(rc, tc) == rc = "." \/ Lower(rc) = Lower(tc)

RECURSIVE MatchHere(_, _)
MatchHere(re, text) ==
    IF re = <<>> THEN TRUE
    ELSE IF Len(re) >= 2 /\ re[2] = "*" THEN
        \E k \in 0..Len(text) :
            /\ \A j \in 1..k : CharMatches(re[1], text[j])
            /\ MatchHere(Drop(re, 2), Drop(text, k))
    ELSE IF re = <<"$">> THEN text = <<>>
    ELSE /\ text # <<>>
         /\ CharMatches(Head(re), Head(text))
         /\ MatchHere(Tail(re), Tail(text))

RegexSearch(re, text) ==
    IF re # <<>> /\ Head(re) = "^"
    THEN MatchHere(Tail(re), text)
    ELSE \E k \in 0..Len(text) : MatchHere(re, Drop(text, k))

(***************************************************************************)
(* Article documents (struct Article).  The writer picks documents from a  *)
(* fixed catalogue; the fields that no handler inspects stay None.         *)
(***************************************************************************)
SlugTable == <<"intro", "news-1", "draft">>
CategorieTable == <<Some("music"), Some("news"), None, Some("music")>>
ThemeTable == <<Some(<<"r", "o", "c", "k">>), Some(<<"p", "o", "p">>),
                Some(<<"R", "o", "c", "k">>), None, Some(<<"r", "o">>)>>
DateTable == <<Some(2), Some(1), None, Some(2), Some(3)>>

Pick(table, i) == table[((i - 1) % Len(table)) + 1]

ArticleDoc(i) ==
    [id |-> i,
     slug |-> Pick(SlugTable, i),
     titre |-> "titre",
     petit_description |-> None,
     contenu |-> Some("contenu"),
     theme |-> Pick(ThemeTable, i),
     categorie |-> Pick(CategorieTable, i),
     photo |-> None,
     photo_description |-> None,
     photo_highlight |-> None,
     date_publication |-> Pick(DateTable, i),
     seo_title |-> Some("seo"),
     seo_description |-> None,
     seo_keywords |-> None]

Catalogue == {ArticleDoc(i) : i \in 1..MaxDocs}


(***************************************************************************)
(* The store's side of the three calls the handlers make.                  *)
(***************************************************************************)
\* BuildFilter with the slip of a theme clause replacing the document
\* instead of being added to it
BuildFilterOverwriting(categorie, theme) ==
    [categorie |-> IF theme = None THEN categorie ELSE None, theme |-> theme]

\* doc! {} plus the optional "categorie" and "theme" clauses
BuildFilter(categorie, theme) ==
    [categorie |-> categorie, theme |-> theme]

\* A document matches a filter when it satisfies every clause present.
Matches(d, filter) ==
    /\ filter.categorie # None => d.categorie = filter.categorie
    /\ filter.theme # None =>
          /\ d.theme # None
          /\ RegexSearch(UnwrapOr(filter.theme, <<>>), UnwrapOr(d.theme, <<>>))

\* The store refuses a filter whose regular expression does not compile.
FilterValid(filter) ==
    filter.theme # None => RegexValid(UnwrapOr(filter.theme, <<>>))

Matching(coll, filter) == {d \in coll : Matches(d, filter)}

\* CountDocuments with the slip of counting under an empty filter
CountDocumentsUnfiltered(coll, filter) == Cardinality(coll)

\* count_documents(filter)
CountDocuments(coll, filter) == Cardinality(Matching(coll, filter))

\* sort {date_publication: -1}: every order of the matching documents in
\* which dated documents are descending; the place of a document without
\* a date is the store's choice, as is the order of equal dates.
DateDescending(s) ==
    \A i, j \in 1..Len(s) :
        (i < j /\ s[i].date_publication # None /\ s[j].date_publication # None)
            => UnwrapOr(s[i].date_publication, 0) >= UnwrapOr(s[j].date_publication, 0)

SortedOrders(S) ==
    {s \in [1..Cardinality(S) -> S] :
        /\ \A i, j \in 1..Cardinality(S) : i # j => s[i] # s[j]
        /\ DateDescending(s)}

\* SkipLimit with the slip of the skip option never being set
SkipLimitNoSkip(s, skipN, limitN) ==
    LET n == IF limitN = 0 THEN Len(s) ELSE Abs(limitN)
    IN  IF n >= Len(s) THEN s ELSE SubSeq(s, 1, n)

\* skip(n) then limit(l): limit 0 means no limit, a negative limit means
\* |l| documents in a single batch.
SkipLimit(s, skipN, limitN) ==
    LET n == IF limitN = 0 THEN Len(s) ELSE Abs(limitN)
        rest == IF skipN >= Len(s) THEN <<>> ELSE SubSeq(s, skipN + 1, Len(s))
    IN  IF n >= Len(rest) THEN rest ELSE SubSeq(rest, 1, n)

\* projection {slug, titre, petit_description, theme, categorie, photo,
\* date_publication}, read back as an Article: the other optional fields
\* come back as None.
Project(d) ==
    [d EXCEPT !.contenu = None, !.photo_description = None,
              !.photo_highlight = None, !.seo_title = None,
              !.seo_description = None, !.seo_keywords = None]

\* the projection applied to every row
ProjectAll(s) == [i \in 1..Len(s) |-> Project(s[i])]

\* find(filter).with_options(sort, skip, limit, projection): the possible
\* result sequences
Find(coll, filter, skipN, limitN) ==
    {ProjectAll(SkipLimit(s, skipN, limitN)) : s \in SortedOrders(Matching(coll, filter))}

\* find_one({slug}): the documents it may return
FindOne(coll, wanted) == {d \in coll : d.slug = wanted}

\* Article -> ArticleListItem
ToListItem(a) ==
    [slug |-> a.slug,
     titre |-> a.titre,
     petit_description |-> a.petit_description,
     theme |-> a.theme,
     categorie |-> a.categorie,
     photo |-> a.photo,
     date_publication |-> a.date_publication]

\* articles.into_iter().map(...).collect()
ToListItems(s) == [i \in 1..Len(s) |-> ToListItem(s[i])]

(***************************************************************************)
(* Parameter resolution of list_articles.                                  *)
(***************************************************************************)
\* params.page.unwrap_or(1).max(1)
ResolvePage(p) == Max(UnwrapOr(p, DefaultPage), 1)

\* params.limit.unwrap_or(10).min(50)
ResolveLimit(l) == Min(UnwrapOr(l, DefaultLimit), MaxLimit)

\* limit as u64
AsU64(x) == x % Pow2(WordBits)

\* (page - 1) * limit as u64, before it is fitted into a u64
SkipProduct(p, l) == (p - 1) * AsU64(l)

\* the product as the wrapping build computes it
WrappingSkip(p, l) == SkipProduct(p, l) % Pow2(WordBits)

SkipOverflows(p, l) == SkipProduct(p, l) > U64Max

(***************************************************************************)
(* Requests.                                                               *)
(***************************************************************************)
\* Raw values of the `page` query parameter; a negative one does not
\* deserialize into a u64.
PageInputs ==
    {None} \cup {Some(v) : v \in {0 - 1, 0, 1, 2, U64Max}}

\* Raw values of the `limit` query parameter; one below the i64 range does
\* not deserialize.
LimitInputs ==
    {None} \cup {Some(v) : v \in {I64Min - 1, 0 - 1, 0, 1, 2,
                                  MaxLimit, MaxLimit + 1}}

CategorieInputs == {None, Some("music")}

ThemeInputs ==
    {None, Some(<<"R", "o", "c">>), Some(<<".">>), Some(<<"(">>)}

SlugInputs == {"intro", "news-1", "missing"}

\* e.to_string() of a store error
StoreErrors == {"connection reset", "server selection timeout"}
RegexError == "Regular expression is invalid"

\* Query<ListQuery>: page must be a u64 and limit an i64
QueryAccepted(p, l) ==
    /\ p # None => UnwrapOr(p, 0) \in U64
    /\ l # None => UnwrapOr(l, 0) \in I64

NoParams == [page |-> None, limit |-> None, categorie |-> None, theme |-> None]
NoFilter == BuildFilter(None, None)
NoResponse ==
    [status |-> 0, error |-> <<>>, articles |-> <<>>, total |-> 0,
     page |-> 0, limit |-> 0, article |-> None]

\* (StatusCode::INTERNAL_SERVER_ERROR, Json(ErrorResponse { error: e.to_string() }))
StoreErrorResponse(e) == [NoResponse EXCEPT !.status = 500, !.error = <<e>>]

\* NotFoundResponse with the slip of a message that leaves the slug out
NotFoundResponseAnonymous(wanted) ==
    [NoResponse EXCEPT !.status = 404, !.error = <<"Article not found">>]

\* format!("Article '{}' not found", slug) under StatusCode::NOT_FOUND
NotFoundResponse(wanted) ==
    [NoResponse EXCEPT !.status = 404,
                       !.error = <<"Article '", wanted, "' not found">>]

\* Ok(Json(ListResponse { articles: items, total, page, limit }))
ListOk(arts, tot, p, l) ==
    [NoResponse EXCEPT !.status = 200, !.articles = ToListItems(arts),
                       !.total = tot, !.page = p, !.limit = l]

\* match article { Some(a) => Ok(Json(a)), None => Err(404) }
ArticleResponse(found, wanted) ==
    IF found = None THEN NotFoundResponse(wanted)
    ELSE [NoResponse EXCEPT !.status = 200, !.article = found]

\* Collected with the slip of the error of try_collect being dropped
CollectedIgnoringFailure(rows, tot, p, l, failure) == ListOk(rows, tot, p, l)

\* What becomes of the rows the cursor yields when try_collect returns.
Collected(rows, tot, p, l, failure) ==
    IF failure = None THEN ListOk(rows, tot, p, l)
    ELSE StoreErrorResponse(UnwrapOr(failure, ""))

VARIABLES
    db,              \* the articles collection
    writes,          \* writes the external writer has made
    overflowChecks,  \* build profile: arithmetic overflow panics (debug) or wraps
    pc,              \* where the handler of the request in flight stands
    handler,         \* "list", "get" or "none"
    params,          \* the ListQuery of the request
    slug,            \* the Path of the request
    page, limit, skip, filter,   \* locals of list_articles
    total,           \* result of count_documents
    cursor,          \* rows of the open cursor
    resp,            \* the response
    calls            \* store calls of the request: operation, outcome, collection version

vars == <<db, writes, overflowChecks, pc, handler, params, slug, page, limit,
          skip, filter, total, cursor, resp, calls>>

locals == <<page, limit, skip, filter, total, cursor>>

Call(op, failure) ==
    [op |-> op, failure |-> failure, version |-> writes]

Init ==
    /\ db \in SUBSET Catalogue
    /\ writes = 0
    /\ overflowChecks \in BOOLEAN
    /\ pc = "idle"
    /\ handler = "none"
    /\ params = NoParams
    /\ slug = ""
    /\ page = 0 /\ limit = 0 /\ skip = 0
    /\ filter = NoFilter
    /\ total = 0
    /\ cursor = <<>>
    /\ resp = NoResponse
    /\ calls = <<>>

(***************************************************************************)
(* The external writer: inserts and deletes at any moment.                 *)
(***************************************************************************)
Insert ==
    /\ writes < MaxWrites
    /\ \E d \in Catalogue \ db : db' = db \cup {d}
    /\ writes' = writes + 1
    /\ UNCHANGED <<overflowChecks, pc, handler, params, slug, locals, resp, calls>>

Delete ==
    /\ writes < MaxWrites
    /\ \E d \in db : db' = db \ {d}
    /\ writes' = writes + 1
    /\ UNCHANGED <<overflowChecks, pc, handler, params, slug, locals, resp, calls>>

(***************************************************************************)
(* GET /articles                                                           *)
(***************************************************************************)
\* The query string does not deserialize into ListQuery: the extractor
\* answers 400 and list_articles does not run.
ListRejected ==
    /\ pc = "idle"
    /\ \E p \in PageInputs, l \in LimitInputs :
          /\ ~QueryAccepted(p, l)
          /\ params' = [NoParams EXCEPT !.page = p, !.limit = l]
    /\ handler' = "list"
    /\ pc' = "done"
    /\ resp' = [NoResponse EXCEPT !.status = 400]
    /\ calls' = <<>>
    /\ UNCHANGED <<db, writes, overflowChecks, slug, locals>>

\* list_articles up to its first await: page, limit, skip and the filter.
\* The multiplication panics on overflow when overflow checks are on.
ListBegin ==
    /\ pc = "idle"
    /\ \E p \in PageInputs, l \in LimitInputs, c \in CategorieInputs, t \in ThemeInputs :
          /\ QueryAccepted(p, l)
          /\ params' = [page |-> p, limit |-> l, categorie |-> c, theme |-> t]
          /\ page' = ResolvePage(p)
          /\ limit' = ResolveLimit(l)
          /\ filter' = BuildFilter(c, t)
          /\ IF SkipOverflows(ResolvePage(p), ResolveLimit(l)) /\ overflowChecks
             THEN /\ pc' = "panicked"
                  /\ skip' = 0
             ELSE /\ pc' = "count"
                  /\ skip' = WrappingSkip(ResolvePage(p), ResolveLimit(l))
    /\ handler' = "list"
    /\ resp' = NoResponse
    /\ calls' = <<>>
    /\ total' = 0
    /\ cursor' = <<>>
    /\ UNCHANGED <<db, writes, overflowChecks, slug>>

\* count_documents(filter.clone()).await succeeds
CountOk ==
    /\ pc = "count"
    /\ FilterValid(filter)
    /\ total' = CountDocuments(db, filter)
    /\ calls' = Append(calls, Call("count", None))
    /\ pc' = "find"
    /\ UNCHANGED <<db, writes, overflowChecks, handler, params, slug, page,
                   limit, skip, filter, cursor, resp>>

\* count_documents(filter.clone()).await fails
CountErr ==
    /\ pc = "count"
    /\ \E e \in StoreErrors \cup {RegexError} :
          /\ e = RegexError <=> ~FilterValid(filter)
          /\ calls' = Append(calls, Call("count", Some(e)))
          /\ resp' = StoreErrorResponse(e)
    /\ pc' = "done"
    /\ UNCHANGED <<db, writes, overflowChecks, handler, params, slug, locals>>

\* find(filter).with_options(options).await succeeds
FindOk ==
    /\ pc = "find"
    /\ \E rows \in Find(db, filter, skip, limit) : cursor' = rows
    /\ calls' = Append(calls, Call("find", None))
    /\ pc' = "collect"
    /\ UNCHANGED <<db, writes, overflowChecks, handler, params, slug, page,
                   limit, skip, filter, total, resp>>

\* find(filter).with_options(options).await fails
FindErr ==
    /\ pc = "find"
    /\ \E e \in StoreErrors :
          /\ calls' = Append(calls, Call("find", Some(e)))
          /\ resp' = StoreErrorResponse(e)
    /\ pc' = "done"
    /\ UNCHANGED <<db, writes, overflowChecks, handler, params, slug, locals>>

\* cursor.try_collect().await succeeds, then the rows are mapped and returned
CollectOk ==
    /\ pc = "collect"
    /\ calls' = Append(calls, Call("collect", None))
    /\ resp' = Collected(cursor, total, page, limit, None)
    /\ pc' = "done"
    /\ UNCHANGED <<db, writes, overflowChecks, handler, params, slug, locals>>

\* cursor.try_collect().await fails
CollectErr ==
    /\ pc = "collect"
    /\ \E e \in StoreErrors :
          /\ calls' = Append(calls, Call("collect", Some(e)))
          /\ resp' = Collected(cursor, total, page, limit, Some(e))
    /\ pc' = "done"
    /\ UNCHANGED <<db, writes, overflowChecks, handler, params, slug, locals>>

(***************************************************************************)
(* GET /articles/:slug                                                     *)
(***************************************************************************)
GetBegin ==
    /\ pc = "idle"
    /\ \E s \in SlugInputs : slug' = s
    /\ handler' = "get"
    /\ pc' = "find_one"
    /\ resp' = NoResponse
    /\ calls' = <<>>
    /\ params' = NoParams
    /\ UNCHANGED <<db, writes, overflowChecks, locals>>

\* find_one(doc! { "slug": &slug }).await succeeds with Some or None
FindOneOk ==
    /\ pc = "find_one"
    /\ \E found \in (IF FindOne(db, slug) = {} THEN {None}
                     ELSE {Some(d) : d \in FindOne(db, slug)}) :
          resp' = ArticleResponse(found, slug)
    /\ calls' = Append(calls, Call("find_one", None))
    /\ pc' = "done"
    /\ UNCHANGED <<db, writes, overflowChecks, handler, params, slug, locals>>

\* find_one(doc! { "slug": &slug }).await fails
FindOneErr ==
    /\ pc = "find_one"
    /\ \E e \in StoreErrors :
          /\ calls' = Append(calls, Call("find_one", Some(e)))
          /\ resp' = StoreErrorResponse(e)
    /\ pc' = "done"
    /\ UNCHANGED <<db, writes, overflowChecks, handler, params, slug, locals>>

\* The response (or the dropped connection of a panicked handler) leaves;
\* nothing of the request is kept.
Finish ==
    /\ pc \in {"done", "panicked"}
    /\ pc' = "idle"
    /\ handler' = "none"
    /\ params' = NoParams
    /\ slug' = ""
    /\ page' = 0 /\ limit' = 0 /\ skip' = 0
    /\ filter' = NoFilter
    /\ total' = 0
    /\ cursor' = <<>>
    /\ resp' = NoResponse
    /\ calls' = <<>>
    /\ UNCHANGED <<db, writes, overflowChecks>>

Next ==
    \/ Insert
    \/ Delete
    \/ ListRejected
    \/ ListBegin
    \/ CountOk
    \/ CountErr
    \/ FindOk
    \/ FindErr
    \/ CollectOk
    \/ CollectErr
    \/ GetBegin
    \/ FindOneOk
    \/ FindOneErr
    \/ Finish

Spec == Init /\ [][Next]_vars

(***************************************************************************)
(* Properties.                                                             *)
(***************************************************************************)
\* list_articles has resolved its parameters and is talking to the store
ListRunning == handler = "list" /\ pc \in {"count", "find", "collect"}

\* list_articles has answered 200
ListAnswered == handler = "list" /\ pc = "done" /\ resp.status = 200

\* no write has reached the collection since the first store call of the request
Unchanged == calls # <<>> /\ calls[1].version = writes

Range(s) == {s[i] : i \in 1..Len(s)}

\* t occurs in s as a literal substring, compared without case
ContainsCI(t, s) ==
    \E k \in 0..(Len(s) - Len(t)) :
        \A i \in 1..Len(t) : Lower(t[i]) = Lower(s[k + i])

\* positions skipN .. skipN + limitN - 1 (counted from 0) of s
Slice(s, skipN, limitN) ==
    IF limitN <= 0 \/ skipN >= Len(s) THEN <<>>
    ELSE SubSeq(s, skipN + 1, Min(Len(s), skipN + limitN))

\* C1: for every list request the limit passed to the store and returned in
\* the envelope lies in [1, 50] and the page is at least 1.
C1_LimitAndPageClamped ==
    /\ ListRunning => limit \in 1..MaxLimit /\ page >= 1
    /\ ListAnswered => resp.limit \in 1..MaxLimit /\ resp.page >= 1

\* C2: a limit above 50 becomes 50, a limit below 1 or an absent limit
\* becomes 10, a limit in 1..50 is kept.
C2_EffectiveLimit ==
    ListRunning =>
        LET given == UnwrapOr(params.limit, 0) IN
        /\ params.limit = None => limit = DefaultLimit
        /\ (params.limit # None /\ given > MaxLimit) => limit = MaxLimit
        /\ (params.limit # None /\ given < 1) => limit = DefaultLimit
        /\ (params.limit # None /\ given \in 1..MaxLimit) => limit = given

\* C3: a page below 1 or absent becomes 1, and the skip handed to the store
\* is exactly (page - 1) * limit of the effective page and limit, without
\* wrap-around or overflow.
C3_SkipExact ==
    /\ pc # "panicked"
    /\ ListRunning =>
          /\ (params.page = None \/ UnwrapOr(params.page, 0) < 1) => page = 1
          /\ skip = (page - 1) * limit

\* C4: on a collection that does not change, the total of a successful list
\* response is the number of documents matching the categorie/theme filter,
\* whatever page and limit are.
C4_TotalIsFilteredCount ==
    (ListAnswered /\ Unchanged) =>
        resp.total = Cardinality({d \in db :
                        Matches(d, [categorie |-> params.categorie,
                                    theme |-> params.theme])})

C4_Witness ==
    /\ ListAnswered /\ Unchanged
    /\ params.page = Some(2) /\ params.limit = Some(1)
    /\ params.theme = Some(<<"R", "o", "c">>)
    /\ resp.total = 2 /\ Len(resp.articles) = 1

\* C5: with a categorie every returned article has exactly that categorie,
\* with a theme as well every returned article satisfies both clauses, and
\* with neither no document is excluded.
C5_FilterClauses ==
    ListAnswered =>
        /\ \A i \in 1..Len(resp.articles) :
              /\ params.categorie # None =>
                    resp.articles[i].categorie = params.categorie
              /\ params.theme # None =>
                    /\ resp.articles[i].theme # None
                    /\ RegexSearch(UnwrapOr(params.theme, <<>>),
                                   UnwrapOr(resp.articles[i].theme, <<>>))
        /\ (params.categorie = None /\ params.theme = None /\ Unchanged)
              => resp.total = Cardinality(db)

C5_Witness ==
    /\ ListAnswered
    /\ params.categorie = Some("music") /\ params.theme = Some(<<"R", "o", "c">>)
    /\ Len(resp.articles) = 1
    /\ \E d \in db : d.categorie # Some("music") /\ d.theme = Some(<<"R", "o", "c", "k">>)

\* C6: with a theme t the matching documents are exactly those whose theme
\* contains t as a case-insensitive literal substring, also when t holds
\* regular-expression metacharacters.
C6_ThemeLiteralSubstring ==
    /\ (ListAnswered /\ Unchanged /\ params.theme # None /\ params.categorie = None) =>
          resp.total = Cardinality({d \in db :
                          /\ d.theme # None
                          /\ ContainsCI(UnwrapOr(params.theme, <<>>),
                                        UnwrapOr(d.theme, <<>>))})
    /\ (handler = "list" /\ pc = "done" /\ calls # <<>>) =>
          calls[1].failure # Some(RegexError)

\* C7: get_article answers 404 with a message containing the slug when the
\* lookup succeeds and no document has that slug, and 200 with the full
\* document when one has; never 404 when a matching document exists.
C7_GetArticle ==
    (handler = "get" /\ pc = "done" /\ Unchanged /\ calls[1].failure = None) =>
        /\ (\A d \in db : d.slug # slug) =>
              /\ resp.status = 404
              /\ slug \in Range(resp.error)
        /\ (\E d \in db : d.slug = slug) =>
              /\ resp.status = 200
              /\ resp.article # None
              /\ \A a \in resp.article : a \in db /\ a.slug = slug

C7_Witness ==
    /\ handler = "get" /\ pc = "done" /\ Unchanged
    /\ resp.status = 404
    /\ slug = "missing"
    /\ db # {}

\* C8: a failure of any store step ends the request with 500 carrying the
\* store's error text; no step is retried or followed by another, and a 200
\* list envelope is only returned when count, find and collect all succeeded.
C8_StoreFailureIsTerminal ==
    (pc = "done" /\ resp.status # 400) =>
        LET n == Len(calls) IN
        /\ n >= 1
        /\ \A i \in 1..(n - 1) : calls[i].failure = None
        /\ \A i, j \in 1..n : i # j => calls[i].op # calls[j].op
        /\ calls[n].failure # None =>
              /\ resp.status = 500
              /\ resp.error = <<UnwrapOr(calls[n].failure, "")>>
              /\ resp.articles = <<>> /\ resp.total = 0 /\ resp.article = None
        /\ calls[n].failure = None => resp.status \in {200, 404}
        /\ (handler = "list" /\ resp.status = 200) =>
              [i \in 1..n |-> calls[i].op] = <<"count", "find", "collect">>

C8_Witness ==
    /\ handler = "list" /\ pc = "done"
    /\ Len(calls) = 3 /\ calls[3].failure # None
    /\ total > 0 /\ cursor # <<>>
    /\ resp.status = 500

\* C9: on an unchanging collection the returned list is the elements at
\* positions skip .. skip+limit-1 of the filtered documents in descending
\* publication date: at most limit entries, and empty with a nonzero total
\* when skip is at least the number of matching documents.
C9_PageIsSlice ==
    (ListAnswered /\ Unchanged) =>
        /\ Len(resp.articles) <= Max(0, limit)
        /\ \E s \in SortedOrders(Matching(db, filter)) :
              resp.articles = ToListItems(ProjectAll(Slice(s, skip, limit)))
        /\ skip >= resp.total => resp.articles = <<>>

====
